---- MODULE Spec2Model ----
(***************************************************************************)
(* Model of the Gaussian-mixture fits of                                   *)
(* density-estimation/2-Gaussian-Mixture-Models.ipynb.                     *)
(*                                                                         *)
(* Real numbers are fixed-point integers in units of 1/ONE (0.35 is 350).  *)
(* The notebook works in D = 1, so a mean is one number and a covariance   *)
(* matrix is one variance.  The value of a Gaussian density p_k(x_i) is    *)
(* quantised to two positive levels (exp > 0 in gauss): the higher one     *)
(* within sqrt(2) standard deviations of the mean, where the exponent of   *)
(* gauss is at least -1, the lower one beyond.  Everything the E-step and  *)
(* the M-step do with those values is computed as the notebook's equations *)
(* state it.                                                               *)
(*                                                                         *)
(* The other notebooks are modelled by machines of their own, each with    *)
(* its own specification: the callbacks of the selection-corrected fit     *)
(* (calls), the gap statistic (gap), the kernel density estimates (kde),   *)
(* the multi-band segmentation (seg) and the pruning of the minimum        *)
(* spanning tree (mst).  A specification leaves the variables of the       *)
(* other machines at their idle values.                                    *)
(***************************************************************************)
EXTENDS Integers, Sequences, FiniteSets, TLC

\* ---------------------------------------------------------------- bounds
\* observed samples per fit
NObs == 2
\* largest number of Gaussian components
MaxK == 2
\* EM iterations explored per fit
MaxIter == 2
\* synthetic samples drawn per iteration
NDraw == 1
\* evaluations of the callbacks that are compared
MaxCalls == 2
\* points of the sample X of the gap statistic
NPts == 3
\* largest number of clusters K passed to getGap
MaxClusters == 2
\* largest number of reruns B passed to getGap
MaxB == 2
\* size of the sample x of the density estimate (x.size, 1200 in the notebook)
NData == 4
\* size of the test set drawn in a cross-validation pass (size=32)
KTest == 2
\* passes of the cross-validation loop (range(128))
NIter == 2
\* locations at which the point-centred histogram is evaluated
NLoc == 2
\* pixels of the image (Ny * Nx)
NPix == 4
\* nodes of the minimum spanning tree (len(X))
NNodes == 12

\* ------------------------------------------------------- fixed-point unit
\* the number 1.0
ONE == 1000

\* ------------------------------------------- constants of the notebook
\* z_cl = 0.35
z_cl == 350
\* gmm.amp[:] = 0.5, Background(..., amp=0.5)
AMP_HALF == 500
\* gmm.amp[0] = 1
AMP_FULL == 1000
\* Background(..., amp=0.7)
AMP_BG_SEL == 700
\* gmm.mean[1][:] = 0.5
MEAN_WIDE == 500
\* gmm.covar[0][:] = 0.01
COVAR_0 == 10
\* gmm.covar[1][:] = 20
COVAR_WIDE == 20000
\* Background((np.array([0]), ...
BG_LO == 0
\* ... np.array([1])), ...)
BG_HI == 1000

\* sample coordinates on the redshift axis, inside and outside [0, 1]
XVals == {100, 300, 900}
DrawVals == {-100, 350, 900}
\* values of np.random.rand, in [0, 1)
RandVals == {0, 999}
\* the two levels of a Gaussian density at a sample: positive
DensLevels == [far |-> 1, near |-> 3]

VARIABLES cfg, data, amp, mean, covar, bg, imputed, q, it, pc,
          calls, gap, kde, seg, mst

\* the state of a fit
fitVars == <<cfg, data, amp, mean, covar, bg, imputed, q, it, pc>>

vars == <<cfg, data, amp, mean, covar, bg, imputed, q, it, pc,
          calls, gap, kde, seg, mst>>

\* no fit is running
FitIdle ==
    /\ cfg = [K |-> 0, hasBg |-> FALSE, sel |-> FALSE,
              frozenMean |-> {}, frozenCovar |-> {}]
    /\ data = <<>>
    /\ amp = <<>>
    /\ mean = <<>>
    /\ covar = <<>>
    /\ bg = [lo |-> 0, hi |-> 0, amp |-> 0]
    /\ imputed = <<>>
    /\ q = <<>>
    /\ it = 0
    /\ pc = "idle"

CallsIdle == calls = <<>>

GapIdle == gap = [pc |-> "idle"]

KdeIdle == kde = [pc |-> "idle"]

SegIdle == seg = [pc |-> "idle"]

MstIdle == mst = [pc |-> "idle"]

\* ---------------------------------------------------------------- helpers
RECURSIVE SumTo(_, _)
SumTo(f, n) == IF n = 0 THEN 0 ELSE f[n] + SumTo(f, n - 1)

RECURSIVE SumSet(_, _)
SumSet(f, S) ==
    IF S = {} THEN 0
    ELSE LET e == CHOOSE e \in S : TRUE IN f[e] + SumSet(f, S \ {e})

Gauss == 1 .. cfg.K
\* the background is component 0 of the generalised mixture
Comps == Gauss \cup (IF cfg.hasBg THEN {0} ELSE {})

\* --------------------------------------------------- selection callbacks
\* zrange with both ends of the range left out
zrange_Open(x) == (x > 0) /\ (x < ONE)

zrange(x) == (x >= 0) /\ (x <= ONE)

\* ramp with the random draw spread over [0, 1) instead of [0, 1 - z_cl)
ramp_FullRange(x, r) == (x - z_cl) * ONE < r * ONE

\* coords[:,0] - z_cl < np.random.rand(len(coords)) * (1-z_cl)
ramp(x, r) == (x - z_cl) * ONE < r * (ONE - z_cl)

ramp_range(x, r) == ramp(x, r) /\ zrange(x)

\* -------------------------------------------------------------- the model
\* p_bg(x_i): the background is constant over its box
BgDensity == ONE \div (bg.hi - bg.lo)

\* all samples the E-step and M-step run over: observed, then imputed
Samples(imp) == data \o imp

\* p_k(x): exp(-(x - mu_k)^2 / (2 Sigma_k)), quantised at exponent -1
GaussDensity(x, k) ==
    IF (x - mean[k]) * (x - mean[k]) <= 2 * covar[k] * ONE
    THEN DensLevels.near
    ELSE DensLevels.far

\* alpha_k p_k(x_i), the numerator of q_ik
Numerator(xs, i, k) ==
    IF k = 0 THEN bg.amp * BgDensity ELSE amp[k] * GaussDensity(xs[i], k)

\* the denominator that leaves the background out of the sum
Denominator_NoBg(xs, i) ==
    SumSet([k \in Gauss |-> Numerator(xs, i, k)], Gauss)

\* sum_j alpha_j p_j(x_i) over all components of the generalised mixture
Denominator(xs, i) ==
    SumSet([k \in Comps |-> Numerator(xs, i, k)], Comps)

\* responsibilities of sample i, kept as numerators w over the denominator W
Responsibility(xs, i) ==
    [w |-> [k \in Comps |-> Numerator(xs, i, k)], W |-> Denominator(xs, i)]

\* q_ik as a fixed-point number
Q(i, k) == (q[i].w[k] * ONE) \div q[i].W

\* q_k = sum_i q_ik
Qk(k) == SumTo([i \in 1 .. Len(q) |-> Q(i, k)], Len(q))

\* the samples synthesised in one iteration that the selection rejects
Missing(draw) ==
    LET F[n \in 0 .. Len(draw)] ==
            IF n = 0 THEN <<>>
            ELSE IF ramp_range(draw[n].x, draw[n].r)
                 THEN F[n - 1]
                 ELSE Append(F[n - 1], draw[n].x)
    IN F[Len(draw)]

\* alpha_k <- q_k / N with the sample count that forgets the imputed samples
NewAmp_ObservedOnly(k) == Qk(k) \div Len(data)

\* alpha_k <- (1/N) sum_i q_ik
NewAmp(k) == Qk(k) \div Len(q)

NewMean(k) ==
    LET all == Samples(imputed)
    IN SumTo([i \in 1 .. Len(q) |-> Q(i, k) * all[i]], Len(q)) \div Qk(k)

NewCovar(k) ==
    LET all == Samples(imputed)
        mu == NewMean(k)
    IN SumTo([i \in 1 .. Len(q) |->
                 Q(i, k) * (((mu - all[i]) * (mu - all[i])) \div ONE)],
             Len(q)) \div Qk(k)

\* the M-step that overwrites a frozen mean like any other
UpdatedMean_IgnoreFrozen(k) == NewMean(k)

\* mu_k after the M-step: a frozen mean keeps its value
UpdatedMean(k) == IF k \in cfg.frozenMean THEN mean[k] ELSE NewMean(k)

\* Sigma_k after the M-step: a frozen covariance keeps its value
UpdatedCovar(k) == IF k \in cfg.frozenCovar THEN covar[k] ELSE NewCovar(k)

\* the background update that also refits the upper bound to the samples
UpdatedBg_RefitBox ==
    [bg EXCEPT !.amp = NewAmp(0), !.hi = Samples(imputed)[1]]

\* the background after the M-step: only its amplitude is fit
UpdatedBg == [bg EXCEPT !.amp = NewAmp(0)]

\* the initial guess set on the model before the fit
InitMean(k) == IF k = 1 THEN z_cl ELSE MEAN_WIDE

InitCovar(k) == IF k = 1 THEN COVAR_0 ELSE COVAR_WIDE

\* gmm.amp[0] = 1 for the single Gaussian, gmm.amp[:] = 0.5 otherwise
InitAmp(k) == IF cfg.K = 1 THEN AMP_FULL ELSE AMP_HALF

\* amp=0.7 in the fit with sel_callback, amp=0.5 in the others
InitBgAmp == IF cfg.sel THEN AMP_BG_SEL ELSE AMP_HALF

\* the fits: K Gaussians, with or without background, frozen parameters
\* and selection callback; the selection-corrected fit is the notebook's
\* (K = 1 with background)
Configs ==
    { c \in [K : 1 .. MaxK, hasBg : BOOLEAN, sel : BOOLEAN,
             frozenMean : {{}, {1}}, frozenCovar : {{}, {1}}] :
        c.sel => (c.K = 1 /\ c.hasBg) }

Init ==
    /\ cfg \in Configs
    /\ data \in [1 .. NObs -> XVals]
    /\ amp = [k \in 1 .. cfg.K |-> InitAmp(k)]
    /\ mean = [k \in 1 .. cfg.K |-> InitMean(k)]
    /\ covar = [k \in 1 .. cfg.K |-> InitCovar(k)]
    /\ bg = [lo |-> BG_LO, hi |-> BG_HI,
             amp |-> IF cfg.hasBg THEN InitBgAmp ELSE 0]
    /\ imputed = <<>>
    /\ q = <<>>
    /\ it = 0
    /\ pc = "E"
    /\ CallsIdle /\ GapIdle /\ KdeIdle /\ SegIdle /\ MstIdle

EStep ==
    /\ pc = "E"
    /\ it < MaxIter
    /\ \E draw \in [1 .. NDraw -> [x : DrawVals, r : RandVals]] :
         LET imp == IF cfg.sel THEN Missing(draw) ELSE <<>>
             n == Len(Samples(imp))
         IN /\ imputed' = imp
            /\ q' = [i \in 1 .. n |-> Responsibility(Samples(imp), i)]
    /\ pc' = "M"
    /\ UNCHANGED <<cfg, data, amp, mean, covar, bg, it>>
    /\ UNCHANGED <<calls, gap, kde, seg, mst>>

MStep ==
    /\ pc = "M"
    /\ amp' = [k \in Gauss |-> NewAmp(k)]
    /\ mean' = [k \in Gauss |-> UpdatedMean(k)]
    /\ covar' = [k \in Gauss |-> UpdatedCovar(k)]
    /\ bg' = IF cfg.hasBg THEN UpdatedBg ELSE bg
    /\ it' = it + 1
    /\ pc' = "E"
    /\ UNCHANGED <<cfg, data, imputed, q>>
    /\ UNCHANGED <<calls, gap, kde, seg, mst>>

Finish ==
    /\ pc = "E"
    /\ pc' = "done"
    /\ UNCHANGED <<cfg, data, amp, mean, covar, bg, imputed, q, it>>
    /\ UNCHANGED <<calls, gap, kde, seg, mst>>

Next == EStep \/ MStep \/ Finish

Spec == Init /\ [][Next]_vars

\* ------------------------------------------- callbacks of the fit
\* std = 0.05
std == 50

\* coordinates the callbacks are evaluated at
CoordVals == {-100, -1, 0, 100, 349, 350, 900, 999, 1000, 1100}

\* values of one draw of np.random.rand, in [0, 1)
RampDraws == {0, 1, 500, 999}

\* zerror(coords) = (std/2)**2 * eye(1), in units of 1/ONE^2
zerror(x) == (std \div 2) * (std \div 2)

CallsInit == FitIdle /\ CallsIdle /\ GapIdle /\ KdeIdle /\ SegIdle /\ MstIdle

\* one evaluation of sel_callback=ramp_range; np.random.rand yields r
CallRampRange ==
    /\ Len(calls) < MaxCalls
    /\ \E x \in CoordVals, r \in RampDraws :
         calls' = Append(calls, [fn |-> "ramp_range", x |-> x, r |-> r,
                                 res |-> ramp_range(x, r)])
    /\ UNCHANGED <<fitVars, gap, kde, seg, mst>>

\* one evaluation of covar_callback=zerror; it draws no random number
CallZerror ==
    /\ Len(calls) < MaxCalls
    /\ \E x \in CoordVals :
         calls' = Append(calls, [fn |-> "zerror", x |-> x, r |-> 0,
                                 res |-> zerror(x)])
    /\ UNCHANGED <<fitVars, gap, kde, seg, mst>>

CallsNext == CallRampRange \/ CallZerror

SpecCalls == CallsInit /\ [][CallsNext]_vars

\* ---------------------------------------------------------- gap statistic
\* positions on the tangent plane, on an integer grid
PointVals == {<<0, 0>>, <<1, 0>>, <<0, 2>>, <<3, 3>>}

\* the label values of a labelling passed to getWK
LabelVals == {0, 1, 3}

\* samples of N distinct points, in a fixed order
PointSets(N) ==
    { X \in [1 .. N -> PointVals] :
        \A i, j \in 1 .. N : i < j =>
            \/ X[i][1] < X[j][1]
            \/ X[i][1] = X[j][1] /\ X[i][2] < X[j][2] }

\* fit_predict of a method with n_clusters=K: every point gets one of the
\* labels 0 .. K-1 and every cluster is non-empty; clusters are numbered in
\* the order of their first point
Labelings(N, K) ==
    { l \in [1 .. N -> 0 .. K - 1] :
        /\ \A k \in 0 .. K - 1 : \E i \in 1 .. N : l[i] = k
        /\ \A i \in 1 .. N : \A k \in 0 .. l[i] - 1 :
              \E j \in 1 .. i - 1 : l[j] = k }

RECURSIVE Fact(_)
Fact(n) == IF n <= 1 THEN 1 ELSE n * Fact(n - 1)

\* W is kept exactly, in units of 1/WScale: every D/(2*N) is a multiple
WScale == 2 * Fact(NPts)

\* np.linalg.norm(Xi - X[sel], ord=None)**2: the Frobenius norm of the
\* matrix of differences, squared
NormSq(X, i, sel) ==
    SumSet([j \in sel |->
               (X[i][1] - X[j][1]) * (X[i][1] - X[j][1])
             + (X[i][2] - X[j][2]) * (X[i][2] - X[j][2])], sel)

\* the term of one cluster with D divided by N instead of 2*N
ClusterTerm_DivN(X, labels, l) ==
    LET sel == {i \in DOMAIN labels : labels[i] = l}
        N == Cardinality(sel)
        D == SumSet([i \in sel |-> NormSq(X, i, sel)], sel)
    IN (D * WScale) \div N

\* one pass of the loop over clusters: D/(2*N) for the cluster l
ClusterTerm(X, labels, l) ==
    LET sel == {i \in DOMAIN labels : labels[i] = l}
        N == Cardinality(sel)
        D == SumSet([i \in sel |-> NormSq(X, i, sel)], sel)
    IN (D * WScale) \div (2 * N)

getWK(X, labels) ==
    LET clusters == {labels[i] : i \in DOMAIN labels}
    IN SumSet([l \in clusters |-> ClusterTerm(X, labels, l)], clusters)

\* np.log, quantised to the integer part of the logarithm to base 2
RECURSIVE Log(_)
Log(w) == IF w <= 1 THEN 0 ELSE 1 + Log(w \div 2)

Sum(list) == SumTo(list, Len(list))

\* np.mean(list), as a fraction
Mean(list) == [num |-> Sum(list), den |-> Len(list)]

\* np.std(list) squared: the mean of the squared deviations from the mean
StdSq(list) ==
    LET n == Len(list)
    IN [num |-> SumTo([i \in 1 .. n |->
                          (n * list[i] - Sum(list)) * (n * list[i] - Sum(list))],
                      n),
        den |-> n * n * n]

\* the returned gap with the two means the wrong way round
GapValue_Swapped(log_WK, log_WK_ref) ==
    [num |-> Mean(log_WK).num * Mean(log_WK_ref).den
             - Mean(log_WK_ref).num * Mean(log_WK).den,
     den |-> Mean(log_WK_ref).den * Mean(log_WK).den]

\* l - np.mean(log_WK), with l = np.mean(log_WK_ref)
GapValue(log_WK, log_WK_ref) ==
    [num |-> Mean(log_WK_ref).num * Mean(log_WK).den
             - Mean(log_WK).num * Mean(log_WK_ref).den,
     den |-> Mean(log_WK_ref).den * Mean(log_WK).den]

\* s squared, for s = np.std(log_WK_ref) * np.sqrt(1 + 1./B)
GapErrSq(log_WK_ref, B) ==
    [num |-> StdSq(log_WK_ref).num * (B + 1),
     den |-> StdSq(log_WK_ref).den * B]

GapInit ==
    /\ FitIdle /\ CallsIdle /\ KdeIdle /\ SegIdle /\ MstIdle
    /\ \E X \in PointSets(NPts), K \in 1 .. MaxClusters, B \in 1 .. MaxB :
         /\ K < NPts
         /\ gap = [pc |-> "start", X |-> X, K |-> K, B |-> B]

\* a direct call getWK(X, labels)
CallGetWK ==
    /\ gap.pc = "start"
    /\ \E labels \in [1 .. NPts -> LabelVals] :
         gap' = [pc |-> "wk", X |-> gap.X, labels |-> labels,
                 W |-> getWK(gap.X, labels)]
    /\ UNCHANGED <<fitVars, calls, kde, seg, mst>>

\* getGap(X, method, K, ref_dist, B=B) up to the loop
GetGapEnter ==
    /\ gap.pc = "start"
    /\ gap' = [pc |-> "loop", X |-> gap.X, K |-> gap.K, B |-> gap.B, b |-> 0,
               log_WK |-> <<>>, log_WK_ref |-> <<>>,
               fitsX |-> 0, fitsRef |-> 0, refSizes |-> <<>>]
    /\ UNCHANGED <<fitVars, calls, kde, seg, mst>>

\* one pass of the loop for b in range(B)
GetGapIteration ==
    /\ gap.pc = "loop"
    /\ gap.b < gap.B
    /\ \E labels \in Labelings(NPts, gap.K),
          ref_sample \in PointSets(Len(gap.X)),
          ref_labels \in Labelings(NPts, gap.K) :
         gap' = [gap EXCEPT
                   !.b = @ + 1,
                   !.log_WK = Append(@, Log(getWK(gap.X, labels))),
                   !.log_WK_ref =
                       Append(@, Log(getWK(ref_sample, ref_labels))),
                   !.fitsX = @ + 1,
                   !.fitsRef = @ + 1,
                   !.refSizes = Append(@, Len(ref_sample))]
    /\ UNCHANGED <<fitVars, calls, kde, seg, mst>>

\* the statements after the loop and the return
GetGapReturn ==
    /\ gap.pc = "loop"
    /\ gap.b = gap.B
    /\ gap' = [pc |-> "returned", X |-> gap.X, K |-> gap.K, B |-> gap.B,
               log_WK |-> gap.log_WK, log_WK_ref |-> gap.log_WK_ref,
               fitsX |-> gap.fitsX, fitsRef |-> gap.fitsRef,
               refSizes |-> gap.refSizes,
               g |-> GapValue(gap.log_WK, gap.log_WK_ref),
               sSq |-> GapErrSq(gap.log_WK_ref, gap.B)]
    /\ UNCHANGED <<fitVars, calls, kde, seg, mst>>

\* the default of the parameter B of getGap and of doGapSweep
B_default == 10

\* a clustering method and a reference distribution that return the same
\* result whenever they are called again (a fixed random state): the
\* labels the method gives the rows of a sample for each K, and the
\* reference sample
Methods(Kmax) ==
    LET AllLabelings == UNION {Labelings(NPts, K) : K \in 1 .. Kmax}
    IN { m \in [fit : [1 .. Kmax -> AllLabelings], ref : PointSets(NPts)] :
          \A K \in 1 .. Kmax : m.fit[K] \in Labelings(NPts, K) }

\* a whole call getGap(X, method, K, ref_dist, B=B) with the method m
getGap(X, m, K, B) ==
    LET F[b \in 0 .. B] ==
            IF b = 0
            THEN [log_WK |-> <<>>, log_WK_ref |-> <<>>, fits |-> 0]
            ELSE LET prev == F[b - 1]
                 IN [log_WK |->
                         Append(prev.log_WK, Log(getWK(X, m.fit[K]))),
                     log_WK_ref |->
                         Append(prev.log_WK_ref,
                                Log(getWK(m.ref, m.fit[K]))),
                     fits |-> prev.fits + 1]
    IN [g |-> GapValue(F[B].log_WK, F[B].log_WK_ref),
        sSq |-> GapErrSq(F[B].log_WK_ref, B),
        fits |-> F[B].fits]

\* doGapSweep(X, method, ref_dist, Kmax=Kmax, B=B) up to the loop
SweepEnter ==
    /\ gap.pc = "start"
    /\ \E m \in Methods(gap.K) :
         gap' = [pc |-> "sweep", X |-> gap.X, Kmax |-> gap.K, B |-> gap.B,
                 method |-> m, iK |-> 0, g |-> <<>>, s |-> <<>>,
                 fits |-> <<>>]
    /\ UNCHANGED <<fitVars, calls, kde, seg, mst>>

\* one pass of the loop for iK in range(0,Kmax): the call
\* getGap(X, method, K, ref_dist), which leaves ord and B at their defaults
SweepIteration ==
    /\ gap.pc = "sweep"
    /\ gap.iK < gap.Kmax
    /\ LET K == gap.iK + 1
           res == getGap(gap.X, gap.method, K, B_default)
       IN gap' = [gap EXCEPT !.iK = @ + 1,
                             !.g = Append(@, res.g),
                             !.s = Append(@, res.sSq),
                             !.fits = Append(@, res.fits)]
    /\ UNCHANGED <<fitVars, calls, kde, seg, mst>>

\* return range(1,Kmax+1), g, s
SweepReturn ==
    /\ gap.pc = "sweep"
    /\ gap.iK = gap.Kmax
    /\ gap' = [pc |-> "swept", X |-> gap.X, Kmax |-> gap.Kmax, B |-> gap.B,
               fits |-> gap.fits,
               Ks |-> [n \in 1 .. gap.Kmax |-> n], g |-> gap.g, s |-> gap.s]
    /\ UNCHANGED <<fitVars, calls, kde, seg, mst>>

GapNext ==
    \/ CallGetWK \/ GetGapEnter \/ GetGapIteration \/ GetGapReturn
    \/ SweepEnter \/ SweepIteration \/ SweepReturn

SpecGap == GapInit /\ [][GapNext]_vars

\* ------------------------------------------------------ density estimation
\* data values, locations and bin widths in units of 0.1
KdeVals == {10, 12, 15, 30}
LocVals == {5, 10, 11, 25}
BinWidths == {1, 3, 10}

\* samples in ascending order
DataSeqs ==
    { xs \in [1 .. NData -> KdeVals] :
        \A i \in 1 .. NData - 1 : xs[i] <= xs[i + 1] }

\* y = (data - x) / (bin_width/2.); np.sum(np.abs(y) < 1.) for one location
HistCount(xl, bin_width, xs) ==
    Cardinality({n \in DOMAIN xs :
        2 * (IF xs[n] >= xl THEN xs[n] - xl ELSE xl - xs[n]) < bin_width})

\* the returned array, each entry as a fraction
point_centered_histogram(x, bin_width, xs) ==
    [l \in DOMAIN x |->
        [num |-> HistCount(x[l], bin_width, xs),
         den |-> Len(xs) * bin_width]]

\* idx = np.arange(x.size)
idx == [j \in 1 .. NData |-> j - 1]

\* the indices selected by np.logical_not(np.isin(idx, rand_i))
train_idx(rand_i) ==
    SelectSeq(idx, LAMBDA j : \A n \in DOMAIN rand_i : rand_i[n] # j)

\* fancy indexing x[index array]
Take(xs, ind) == [n \in DOMAIN ind |-> xs[ind[n] + 1]]

KdeInit ==
    /\ FitIdle /\ CallsIdle /\ GapIdle /\ SegIdle /\ MstIdle
    /\ \E xs \in DataSeqs : kde = [pc |-> "start", x |-> xs]

\* a call point_centered_histogram(x_grid, bin_width, x)
CallHistogram ==
    /\ kde.pc = "start"
    /\ \E x_grid \in [1 .. NLoc -> LocVals], bin_width \in BinWidths :
         kde' = [pc |-> "hist", x |-> kde.x, x_grid |-> x_grid,
                 bin_width |-> bin_width,
                 res |-> point_centered_histogram(x_grid, bin_width, kde.x)]
    /\ UNCHANGED <<fitVars, calls, gap, seg, mst>>

\* the statements before the cross-validation loop
CVEnter ==
    /\ kde.pc = "start"
    /\ kde' = [pc |-> "cv", x |-> kde.x, i |-> 0, rand_i |-> <<>>,
               test_x |-> <<>>, train_ind |-> <<>>, train_x |-> <<>>]
    /\ UNCHANGED <<fitVars, calls, gap, seg, mst>>

\* one pass of the loop: the split, then the minimisation on it
CVIteration ==
    /\ kde.pc = "cv"
    /\ kde.i < NIter
    /\ \E rand_i \in [1 .. KTest -> 0 .. NData - 1] :
         kde' = [kde EXCEPT
                   !.i = @ + 1,
                   !.rand_i = rand_i,
                   !.test_x = Take(kde.x, rand_i),
                   !.train_ind = train_idx(rand_i),
                   !.train_x = Take(kde.x, train_idx(rand_i))]
    /\ UNCHANGED <<fitVars, calls, gap, seg, mst>>

KdeNext == CallHistogram \/ CVEnter \/ CVIteration

SpecKde == KdeInit /\ [][KdeNext]_vars

\* ----------------------------------------------------------- segmentation
\* noise_thresh = 0.75, compared with sums of squares of coordinates that
\* are kept in units of 0.01
noise_thresh == 7500

\* KMeans(n_clusters=3)
n_clusters == 3

\* projected colours (v1, v2) of a pixel in units of 0.01; the colour of a
\* pixel of total intensity zero is NaN in both coordinates
Colour(v1, v2) == [nan |-> FALSE, v1 |-> v1, v2 |-> v2]
NaNColour == [nan |-> TRUE, v1 |-> 0, v2 |-> 0]
ColourVals == {NaNColour, Colour(50, 50), Colour(80, 0), Colour(90, 0)}

\* the pixels of the three peaks (xs = 10,15,30; ys = 10,35,25)
pos == <<1, 2, 3>>

\* np.isnan(v[:,0]) | np.isnan(v[:,1])
IsBad(c) == c.nan

\* (v**2).sum(axis=1) > noise_thresh; a comparison with NaN is False
IsNoise(c) ==
    IF c.nan THEN FALSE ELSE c.v1 * c.v1 + c.v2 * c.v2 > noise_thresh

\* the mask sel of the excluded pixels
Excluded(v) == [p \in DOMAIN v |-> IsBad(v[p]) \/ IsNoise(v[p])]

\* the indices p with ~sel[p], in ascending order
KeptPixels(sel) ==
    SelectSeq([p \in DOMAIN sel |-> p], LAMBDA p : ~sel[p])

\* the labels with the cluster indices of k-means not shifted by one
AllLabels_NoShift(sel, labels_) ==
    LET kept == KeptPixels(sel)
    IN [p \in DOMAIN sel |->
          IF sel[p] THEN 0
          ELSE labels_[CHOOSE n \in DOMAIN kept : kept[n] = p]]

\* labels = np.zeros(len(v)); labels[~sel] = labels_ + 1
AllLabels(sel, labels_) ==
    LET kept == KeptPixels(sel)
    IN [p \in DOMAIN sel |->
          IF sel[p] THEN 0
          ELSE labels_[CHOOSE n \in DOMAIN kept : kept[n] = p] + 1]

\* the loop for k in range(len(pos)) over the image that starts black:
\* segmentation[pixel_labels == peak_labels[k]] = colors[k + 1]
RECURSIVE Paint(_, _, _, _)
Paint(segmentation, labels, peak_labels, k) ==
    IF k > Len(pos) THEN segmentation
    ELSE Paint([p \in DOMAIN segmentation |->
                   IF labels[p] = peak_labels[k] THEN k
                   ELSE segmentation[p]],
               labels, peak_labels, k + 1)

\* the image drawn by plotWithLabels: 0 is black, k the colour of peak k
Segmentation(labels) ==
    LET peak_labels == [k \in DOMAIN pos |-> labels[pos[k]]]
    IN Paint([p \in DOMAIN labels |-> 0], labels, peak_labels, 1)

SegInit ==
    /\ FitIdle /\ CallsIdle /\ GapIdle /\ KdeIdle /\ MstIdle
    /\ \E v \in [1 .. NPix -> ColourVals] : seg = [pc |-> "start", v |-> v]

\* the cell that excludes bad pixels and prunes the noise
Prune ==
    /\ seg.pc = "start"
    /\ seg' = [pc |-> "pruned", v |-> seg.v, sel |-> Excluded(seg.v)]
    /\ UNCHANGED <<fitVars, calls, gap, kde, mst>>

\* the cell that runs k-means on the kept pixels: any labelling that uses
\* each of the n_clusters labels
Cluster ==
    /\ seg.pc = "pruned"
    /\ Len(KeptPixels(seg.sel)) >= n_clusters
    /\ \E labels_ \in [1 .. Len(KeptPixels(seg.sel)) -> 0 .. n_clusters - 1] :
         /\ \A c \in 0 .. n_clusters - 1 :
               \E n \in DOMAIN labels_ : labels_[n] = c
         /\ seg' = [pc |-> "clustered", v |-> seg.v, sel |-> seg.sel,
                    labels_ |-> labels_,
                    labels |-> AllLabels(seg.sel, labels_)]
    /\ UNCHANGED <<fitVars, calls, gap, kde, mst>>

\* plotWithLabels(v, labels)
PlotWithLabels ==
    /\ seg.pc = "clustered"
    /\ seg' = [pc |-> "plotted", v |-> seg.v, sel |-> seg.sel,
               labels |-> seg.labels,
               segmentation |-> Segmentation(seg.labels)]
    /\ UNCHANGED <<fitVars, calls, gap, kde, mst>>

SegNext == Prune \/ Cluster \/ PlotWithLabels

SpecSeg == SegInit /\ [][SegNext]_vars

\* -------------------------------------------------- minimum spanning tree
\* perc = [90,95,98,99]
perc == <<90, 95, 98, 99>>

\* lengths of the edges of the tree
EdgeLens == {1, 2, 3}

\* the lengths of the edges in the order of the nodes, ascending or
\* descending along the tree
LenSeqs ==
    { len \in [1 .. NNodes - 1 -> EdgeLens] :
        \/ \A n \in 1 .. NNodes - 2 : len[n] <= len[n + 1]
        \/ \A n \in 1 .. NNodes - 2 : len[n] >= len[n + 1] }

Nodes == 1 .. NNodes

\* T = minimum_spanning_tree(G).toarray(): the length of each edge of the
\* tree at one entry of the matrix, 0 everywhere else; the tree is a chain
\* or a star whose n-th edge has the length len[n]
TreeMatrix(shape, len) ==
    [pr \in Nodes \X Nodes |->
        IF shape = "chain" /\ pr[2] = pr[1] + 1 THEN len[pr[1]]
        ELSE IF shape = "star" /\ pr[1] = 1 /\ pr[2] > 1 THEN len[pr[2] - 1]
        ELSE 0]

\* the entry of rank k (from 0) among the sorted entries selected by sel
Kth(T, sel, k) ==
    CHOOSE v \in {T[pr] : pr \in sel} :
        /\ Cardinality({pr \in sel : T[pr] < v}) <= k
        /\ Cardinality({pr \in sel : T[pr] <= v}) > k

\* the percentile taken over all entries of T, the zeros included
Percentile_AllEntries(T, p) ==
    LET sel == DOMAIN T
        n == Cardinality(sel)
        lo == (p * (n - 1)) \div 100
        hi == IF lo + 1 < n THEN lo + 1 ELSE lo
    IN 100 * Kth(T, sel, lo)
         + ((p * (n - 1)) % 100) * (Kth(T, sel, hi) - Kth(T, sel, lo))

\* np.percentile(T[T>0], p), times 100: linear interpolation between the
\* two sorted entries next to the rank p/100 * (n - 1)
Percentile(T, p) ==
    LET sel == {pr \in DOMAIN T : T[pr] > 0}
        n == Cardinality(sel)
        lo == (p * (n - 1)) \div 100
        hi == IF lo + 1 < n THEN lo + 1 ELSE lo
    IN 100 * Kth(T, sel, lo)
         + ((p * (n - 1)) % 100) * (Kth(T, sel, hi) - Kth(T, sel, lo))

\* np.where((T>0) & (T<cuts[i])), cut being 100 * cuts[i]
EdgesBelow(T, cut) == {pr \in DOMAIN T : T[pr] > 0 /\ 100 * T[pr] < cut}

MstInit ==
    /\ FitIdle /\ CallsIdle /\ GapIdle /\ KdeIdle /\ SegIdle
    /\ \E shape \in {"chain", "star"}, len \in LenSeqs :
         mst = [pc |-> "start", len |-> len, T |-> TreeMatrix(shape, len)]

\* cuts = np.percentile(T[T>0],perc)
MstCuts ==
    /\ mst.pc = "start"
    /\ mst' = [pc |-> "loop", len |-> mst.len, T |-> mst.T,
               cuts |-> [i \in DOMAIN perc |-> Percentile(mst.T, perc[i])],
               i |-> Len(perc), plots |-> <<>>]
    /\ UNCHANGED <<fitVars, calls, gap, kde, seg>>

\* one pass of the loop for i in range(len(perc))[::-1]: the figure of the
\* percentile perc[i] with its edges
MstPlot ==
    /\ mst.pc = "loop"
    /\ mst.i > 0
    /\ mst' = [mst EXCEPT
                 !.i = @ - 1,
                 !.plots = Append(@, [q |-> perc[mst.i],
                                      edges |-> EdgesBelow(mst.T,
                                                           mst.cuts[mst.i])])]
    /\ UNCHANGED <<fitVars, calls, gap, kde, seg>>

MstNext == MstCuts \/ MstPlot

SpecMst == MstInit /\ [][MstNext]_vars

\* ------------------------------------------------------------ properties
Abs(x) == IF x < 0 THEN -x ELSE x

\* rounding allowance of the fixed-point quotients: one unit per component
\* in the E-step and one per component in the M-step
AmpTol == 2 * Cardinality(Comps)

GaussAmpSum == SumSet(amp, Gauss)

\* C1: after every M-step every amplitude is >= 0 and the Gaussian
\* amplitudes plus the background amplitude sum to 1 (within the rounding
\* allowance), i.e. the background amplitude is 1 minus the sum of the
\* Gaussian amplitudes.
C1_AmplitudesSumToOne ==
    it >= 1 =>
        /\ \A k \in Gauss : amp[k] >= 0
        /\ bg.amp >= 0
        /\ Abs(GaussAmpSum + bg.amp - ONE) <= AmpTol
        /\ cfg.hasBg => Abs(bg.amp - (ONE - GaussAmpSum)) <= AmpTol

\* an M-step has run on a fit with two Gaussians and a background whose
\* initial amplitudes did not sum to 1
C1_Witness ==
    /\ it >= 1
    /\ cfg.hasBg
    /\ cfg.K >= 2
    /\ cfg.K * AMP_HALF + InitBgAmp # ONE
    /\ bg.amp > 0

RowSum(i) == SumSet(q[i].w, Comps)

\* the denominator of the design text read as written: the background term
\* stands inside the sum over the Gaussian components j
DenominatorAsWritten(i) ==
    SumSet([j \in Gauss |->
               q[i].w[j] + (IF cfg.hasBg THEN q[i].w[0] ELSE 0)], Gauss)

C13_CallbacksPure ==
    \A i, j \in 1 .. Len(calls) :
        (calls[i].fn = calls[j].fn /\ calls[i].x = calls[j].x)
            => calls[i].res = calls[j].res

\* C13 (amended): two evaluations of zerror on the same coordinates agree,
\* and two evaluations of ramp_range agree where the random draw of ramp
\* cannot matter, at z < z_cl and at z >= 1; for z_cl <= z < 1 they agree
\* when the draws agree.
C13_PureUpToDraw ==
    \A i, j \in 1 .. Len(calls) :
        (/\ calls[i].fn = calls[j].fn
         /\ calls[i].x = calls[j].x
         /\ \/ calls[i].fn = "zerror"
            \/ calls[i].x < z_cl
            \/ calls[i].x >= ONE
            \/ calls[i].r = calls[j].r)
            => calls[i].res = calls[j].res

\* ramp_range has been evaluated twice at the same redshift at or beyond 1
\* with different random draws
C13_Witness ==
    \E i, j \in 1 .. Len(calls) :
        /\ calls[i].fn = "ramp_range"
        /\ calls[j].fn = "ramp_range"
        /\ calls[i].x = calls[j].x
        /\ calls[i].x >= ONE
        /\ zrange(calls[i].x)
        /\ calls[i].r # calls[j].r

\* the squared Euclidean distance d_ij
Dist2(a, b) ==
    (a[1] - b[1]) * (a[1] - b[1]) + (a[2] - b[2]) * (a[2] - b[2])

\* W_K = sum_k 1/(2|C_k|) sum_{i,j in C_k} d_ij, in units of 1/WScale
WKFormula(X, labels) ==
    LET clusters == {labels[i] : i \in DOMAIN labels}
        C(k) == {i \in DOMAIN labels : labels[i] = k}
        pairSum(k) ==
            SumSet([pr \in C(k) \X C(k) |-> Dist2(X[pr[1]], X[pr[2]])],
                   C(k) \X C(k))
    IN SumSet([k \in clusters |->
                  (pairSum(k) * WScale) \div (2 * Cardinality(C(k)))],
              clusters)

\* C15: getWK(X, labels) returns the sum over the clusters k of
\* 1/(2|C_k|) times the sum over all ordered pairs i, j in C_k of the
\* squared Euclidean distance of x_i and x_j.
C15_GetWK ==
    gap.pc = "wk" => gap.W = WKFormula(gap.X, gap.labels)

\* getWK has returned a positive W for a labelling with two clusters whose
\* label values are not consecutive, one of them with more than one point
C15_Witness ==
    /\ gap.pc = "wk"
    /\ gap.W > 0
    /\ {gap.labels[i] : i \in DOMAIN gap.labels} = {0, 3}

\* C16: getGap runs B clusterings of X and B clusterings of B reference
\* draws of size len(X), and returns the mean of log W_K over the reference
\* runs minus the mean over the runs on X, and the standard deviation of
\* the reference log W_K times sqrt(1 + 1/B) (compared as squares).
C16_GetGap ==
    gap.pc = "returned" =>
        LET B == gap.B
            r == gap.log_WK_ref
            x == gap.log_WK
        IN /\ gap.fitsX = B /\ Len(x) = B
           /\ gap.fitsRef = B /\ Len(r) = B
           /\ Len(gap.refSizes) = B
           /\ \A i \in 1 .. B : gap.refSizes[i] = Len(gap.X)
           /\ gap.g.num * B = (Sum(r) - Sum(x)) * gap.g.den
           /\ gap.sSq.num * (B * B * B)
                = ((B * SumTo([i \in 1 .. B |-> r[i] * r[i]], B)
                    - Sum(r) * Sum(r)) * (B + 1)) * gap.sSq.den

\* getGap has returned after two reruns whose reference dispersions
\* differ, with a gap different from zero
C16_Witness ==
    /\ gap.pc = "returned"
    /\ gap.B >= 2
    /\ gap.log_WK_ref[1] # gap.log_WK_ref[2]
    /\ gap.g.num # 0
    /\ gap.sSq.num > 0

\* the elements of a sequence
Range(f) == {f[n] : n \in DOMAIN f}

\* C17: in each leave-K-out cross-validation pass the test set consists of
\* K data points, the training set of the remaining N - K data points, and
\* no data point is in both sets.
C17_LeaveKOut ==
    (kde.pc = "cv" /\ kde.i > 0) =>
        /\ Len(kde.test_x) = KTest
        /\ Cardinality(Range(kde.rand_i)) = KTest
        /\ Len(kde.train_x) = NData - KTest
        /\ Range(kde.rand_i) \cap Range(kde.train_ind) = {}
        /\ Range(kde.rand_i) \cup Range(kde.train_ind) = Range(idx)

\* C20: point_centered_histogram returns, at each location x, the number
\* of data points x_n with |x - x_n| / (bin_width/2) <= 1, divided by
\* len(data) * bin_width: a data point exactly half a bin width away from
\* x is counted.
C20_TopHatInclusive ==
    kde.pc = "hist" =>
        \A l \in 1 .. NLoc :
            /\ kde.res[l].num =
                 Cardinality({n \in 1 .. NData :
                     2 * Abs(kde.x_grid[l] - kde.x[n]) <= kde.bin_width})
            /\ kde.res[l].den = NData * kde.bin_width

\* C18: the pixels kept for clustering are exactly those whose projected
\* colour (v1, v2) is not NaN and whose 2D distance from the origin is less
\* than 0.75; all other pixels are excluded.
C18_KeptWithinDistance ==
    seg.pc = "pruned" =>
        \A p \in 1 .. NPix :
            ~seg.sel[p] <=>
                /\ ~seg.v[p].nan
                /\ seg.v[p].v1 * seg.v[p].v1 + seg.v[p].v2 * seg.v[p].v2
                     < 75 * 75

\* C19: in the segmentation image a pixel is black if and only if it was
\* excluded as an outlier (label 0), for every k-means labelling.
C19_BlackIffOutlier ==
    seg.pc = "plotted" =>
        \A p \in 1 .. NPix : seg.segmentation[p] = 0 <=> seg.labels[p] = 0

\* C26: ramp_range accepts every sample with 0 <= z < z_cl, rejects every
\* sample with z < 0 or z >= 1, and for z_cl <= z < 1 the outcome follows
\* the random draw (rejected at the lowest draw, accepted at the highest),
\* whatever values the draws in [0, 1) take.
C26_RampRange ==
    \A i \in 1 .. Len(calls) :
        calls[i].fn = "ramp_range" =>
            LET z == calls[i].x
                r == calls[i].r
            IN /\ (0 <= z /\ z < z_cl) => calls[i].res
               /\ (z < 0 \/ z >= ONE) => ~calls[i].res
               /\ (z_cl <= z /\ z < ONE /\ r = 0) => ~calls[i].res
               /\ (z_cl <= z /\ z < ONE /\ r = ONE - 1) => calls[i].res

\* the same redshift between z_cl and 1 was accepted with one draw and
\* rejected with another
C26_Witness ==
    \E i, j \in 1 .. Len(calls) :
        /\ calls[i].fn = "ramp_range" /\ calls[j].fn = "ramp_range"
        /\ calls[i].x = calls[j].x
        /\ z_cl <= calls[i].x /\ calls[i].x < ONE
        /\ calls[i].res /\ ~calls[j].res

\* C23: doGapSweep computes the gap for every K from 1 to Kmax with the B
\* it was given (B clustering runs and reference draws per K), and returns
\* the Ks 1 .. Kmax with gap and error lists of length Kmax in that order.
C23_SweepUsesGivenB ==
    gap.pc = "swept" =>
        /\ gap.Ks = [n \in 1 .. gap.Kmax |-> n]
        /\ Len(gap.g) = gap.Kmax
        /\ Len(gap.s) = gap.Kmax
        /\ \A K \in 1 .. gap.Kmax : gap.fits[K] = gap.B

\* C25: after the k-means step every pixel has a label in {0, 1, 2, 3}:
\* the label is 0 exactly for the pixels excluded as outliers (sel true)
\* and the k-means cluster index plus 1 for every other pixel, the kept
\* pixels taken in the order of the image.
C25_LabelsOfPixels ==
    seg.pc = "clustered" =>
        \A p \in 1 .. NPix :
            /\ seg.labels[p] \in 0 .. 3
            /\ seg.labels[p] = 0 <=> seg.sel[p]
            /\ ~seg.sel[p] =>
                 seg.labels[p] =
                     seg.labels_[Cardinality({n \in 1 .. p : ~seg.sel[n]})] + 1

\* k-means has run on an image with an excluded pixel in front of kept
\* pixels, and a kept pixel is in the cluster of index 0
C25_Witness ==
    /\ seg.pc = "clustered"
    /\ seg.sel[1]
    /\ \E p \in 2 .. NPix : ~seg.sel[p] /\ seg.labels[p] = 1
    /\ \E p \in 2 .. NPix : seg.labels[p] = 3

\* the edge lengths in ascending order
RECURSIVE SortedLens(_)
SortedLens(len) ==
    IF len = <<>> THEN <<>>
    ELSE LET n == CHOOSE n \in DOMAIN len : \A o \in DOMAIN len : len[n] <= len[o]
             rest == [o \in 1 .. Len(len) - 1 |->
                         IF o < n THEN len[o] ELSE len[o + 1]]
         IN <<len[n]>> \o SortedLens(rest)

\* 100 times the p-th percentile of the edge lengths
PercentileOfLens(len, p) ==
    LET a == SortedLens(len)
        h == p * (Len(a) - 1)
        lo == h \div 100 + 1
        fr == h % 100
    IN IF fr = 0 THEN 100 * a[lo]
       ELSE (100 - fr) * a[lo] + fr * a[lo + 1]

\* C24: for each percentile p the plotted edge set is exactly the edges of
\* the tree T with positive length strictly below the p-th percentile of
\* the positive edge lengths; the set of a smaller p is a subset of the
\* set of a larger p, and each is a subset of the edges of T.
C24_PercentileEdges ==
    mst.pc = "loop" =>
        /\ \A n \in 1 .. Len(mst.plots) :
              /\ LET cut == PercentileOfLens(mst.len, mst.plots[n].q)
                 IN mst.plots[n].edges =
                      {pr \in Nodes \X Nodes :
                          mst.T[pr] > 0 /\ 100 * mst.T[pr] < cut}
              /\ mst.plots[n].edges \subseteq
                   {pr \in Nodes \X Nodes : mst.T[pr] > 0}
        /\ \A n, o \in 1 .. Len(mst.plots) :
              mst.plots[n].q <= mst.plots[o].q =>
                  mst.plots[n].edges \subseteq mst.plots[o].edges
        /\ mst.i = 0 => {mst.plots[n].q : n \in 1 .. Len(mst.plots)}
                           = {perc[i] : i \in DOMAIN perc}

\* all four figures are drawn, the edge set of the 90th percentile is not
\* empty and smaller than the one of the 99th, which is not the whole tree
C24_Witness ==
    /\ mst.pc = "loop"
    /\ mst.i = 0
    /\ mst.plots[4].q = 90 /\ mst.plots[1].q = 99
    /\ mst.plots[4].edges # {}
    /\ mst.plots[4].edges # mst.plots[1].edges
    /\ Cardinality(mst.plots[1].edges) < NNodes - 1

====
